---------------------------- MODULE Spec2Model ----------------------------
(***************************************************************************)
(* Turbo Notes: the password-protected local document store.               *)
(*                                                                         *)
(* Three front-ends are modelled, each on an installation of its own:      *)
(*   - the terminal store  (src/turbo_notes.py, class TurboNotes),         *)
(*   - the desktop store   (src/turbonotes/core, CryptoManager and         *)
(*     NotesStorage),                                                      *)
(*   - the Android store   (src/android_app, class DataManager, which      *)
(*     exists in main.py and in data_manager.py).                          *)
(* The variable frontend says which of them an installation runs.          *)
(*                                                                         *)
(* Python's None is the empty tuple and a present value x is <<x>>.        *)
(* PBKDF2 is modelled as an injective function of (password, salt) and a   *)
(* Fernet token as the pair (key, payload): decryption succeeds exactly    *)
(* under the key that encrypted. Timestamps are one abstract value Now.    *)
(* The Android store reads the calendar day, an integer. Note bodies,      *)
(* categories and creation dates are read by no modelled                   *)
(* operation and are left out of the document.                             *)
(***************************************************************************)
EXTENDS Integers, Sequences, FiniteSets, TLC

VARIABLES
    frontend,      \* "terminal", "desktop" or "android": the front-end installed
    pc,            \* position of the process in main(): new, ready, running, exited
    keyring,       \* secret store entry (app_name, "master_password")
    salt_file,     \* content of salt.key, None when the file is absent
    data_file,     \* content of notes_data.enc, None when the file is absent
    cipher_suite,  \* TurboNotes.cipher_suite: None or the Fernet key
    data,          \* TurboNotes.data
    last,          \* the last completed operation: its name, input and return value
    prev,          \* history: the document the previous process held when it
                   \* exited, kept until this process has loaded and is in use
    file_path,     \* content of notes_gui.json, None when the file is absent
    fernet,        \* CryptoManager._fernet: None or the Fernet key
    gdata,         \* NotesStorage._data (its list of notes)
    loaded,        \* NotesStorage._loaded
    dm_class,      \* the module the Android DataManager class comes from
    afile,         \* content of notes_data.json (Android), None when absent
    adata,         \* DataManager.data
    today,         \* the calendar day (Android), as an integer
    dawn,          \* history: stats.streak_days in memory when the day began
    peer           \* a second process on the same files: its store object
                   \* while the other process runs, and the last writer

vars == <<frontend, pc, keyring, salt_file, data_file, cipher_suite, data,
          last, prev, file_path, fernet, gdata, loaded, dm_class, afile, adata,
          today, dawn, peer>>

termVars == <<pc, data_file, cipher_suite, data, prev>>
deskVars == <<file_path, fernet, gdata, loaded>>
andVars == <<dm_class, afile, adata, today, dawn>>

---------------------------------------------------------------------------
(* Bounds of the model *)

MaxNotes == 2
MaxTasks == 1

(* Program constants *)

SaltLen == 16
MinPasswordLen == 6

---------------------------------------------------------------------------
(* Values *)

None == <<>>
Some(x) == <<x>>

Now == "now"

\* What a user can type at a password prompt; "short" is below the minimum length.
TypedPasswords == {"secret1", "secret2", "short"}

\* Two of the values os.urandom(16) can return.
Salts == {[i \in 1..SaltLen |-> b] : b \in {"00", "ff"}}

NoteTitles == {"A", "B"}
TaskTitles == {"T"}

\* prev on a fresh installation and while no startup is under way.
NoPrev == [notes |-> <<>>, tasks |-> <<>>, disabled |-> FALSE]

\* The salts os.urandom can be asked for: it is called only when the salt
\* file is absent.
FreshSalts(sf) == IF sf = None THEN Salts ELSE {CHOOSE s \in Salts : TRUE}

\* The document TurboNotes.__init__ builds.
DefaultData ==
    [notes |-> <<>>, tasks |-> <<>>, last_accessed |-> None, password_enabled |-> None]

\* peer on a fresh installation: process 1 runs, process 2 has built its
\* store object and done nothing, and nobody has written the document file.
NoPeer ==
    [active |-> 1, pc |-> "new", cipher_suite |-> None, data |-> DefaultData,
     fernet |-> None, gdata |-> [notes |-> <<>>], loaded |-> FALSE,
     file |-> None, writer |-> 0]

---------------------------------------------------------------------------
(* Key derivation, cipher and JSON *)

\* PBKDF2-HMAC-SHA256 of (password, salt), base64 encoded.
Derive(password, salt) == [pw |-> password, salt |-> salt]

\* Fernet(key).encrypt(payload)
FernetEncrypt(key, payload) == [kind |-> "fernet", key |-> Some(key), body |-> payload]

\* Fernet(key).decrypt(token): InvalidToken unless token was made under key.
FernetDecrypt(key, token) ==
    IF token.kind = "fernet" /\ token.key = Some(key)
    THEN [ok |-> TRUE, val |-> token.body]
    ELSE [ok |-> FALSE, val |-> token]

\* json.dumps(d), as the bytes of the text.
JsonDumps(d) == [kind |-> "json", key |-> None, body |-> d]

\* json.loads(bytes): JSONDecodeError unless the bytes are JSON text.
JsonLoads(bytes) ==
    IF bytes.kind = "json"
    THEN [ok |-> TRUE, val |-> bytes.body]
    ELSE [ok |-> FALSE, val |-> bytes]

---------------------------------------------------------------------------
(* Terminal store: helpers *)

\* Variant of generate_key_from_password that writes a new salt on every call.
GenerateKeyFromPassword_NewSalt(password, sf, fresh) ==
    [key |-> Derive(password, fresh), salt_file |-> Some(fresh)]

\* generate_key_from_password: reads the salt file, or creates it from
\* os.urandom (fresh) when it is absent.
GenerateKeyFromPassword(password, sf, fresh) ==
    LET salt == IF sf # None THEN sf[1] ELSE fresh
    IN  [key |-> Derive(password, salt), salt_file |-> Some(salt)]

\* Variant of save_data that never encrypts.
SaveData_AlwaysPlain(d, kr, cs, df) ==
    LET d1 == [d EXCEPT !.last_accessed = Some(Now)]
    IN  [data |-> d1, data_file |-> Some(JsonDumps(d1))]

\* save_data: stamps last_accessed, then writes plain JSON when no verifier
\* is stored and ciphertext otherwise. Every exception is caught and
\* printed: with a verifier and no cipher_suite the file is left as it was.
SaveData(d, kr, cs, df) ==
    LET d1 == [d EXCEPT !.last_accessed = Some(Now)]
        json_data == JsonDumps(d1)
    IN  IF kr = None
        THEN [data |-> d1, data_file |-> Some(json_data)]
        ELSE IF cs = None
             THEN [data |-> d1, data_file |-> df]
             ELSE [data |-> d1, data_file |-> Some(FernetEncrypt(cs[1], json_data))]

\* save_data_unencrypted
SaveDataUnencrypted(d) ==
    LET d1 == [d EXCEPT !.last_accessed = Some(Now)]
    IN  [data |-> d1, data_file |-> Some(JsonDumps(d1))]

\* load_data as a function of what it reads.
LoadData(d, kr, cs, df) ==
    IF df = None
    THEN [ret |-> TRUE, data |-> d]
    ELSE IF kr = None
         THEN LET r == JsonLoads(df[1])
              IN  IF r.ok THEN [ret |-> TRUE, data |-> r.val]
                          ELSE [ret |-> FALSE, data |-> d]
         ELSE IF cs = None
              THEN [ret |-> FALSE, data |-> d]
              ELSE LET dec == FernetDecrypt(cs[1], df[1])
                   IN  IF ~dec.ok
                       THEN [ret |-> FALSE, data |-> d]
                       ELSE LET r == JsonLoads(dec.val)
                            IN  IF r.ok THEN [ret |-> TRUE, data |-> r.val]
                                        ELSE [ret |-> FALSE, data |-> d]

\* The password prompt loop accepts a pair only when both entries agree and
\* are long enough; rejected pairs change nothing and the loop asks again.
Accepted(password, confirm_password) ==
    password = confirm_password /\ Len(password) >= MinPasswordLen

Ret(b) == IF b THEN "True" ELSE "False"

\* The record of a completed operation: name, the passwords entered at the
\* prompts it showed, return value and the outcome it printed on the console.
Last(op, arg, ret, out) == [op |-> op, arg |-> arg, ret |-> ret, out |-> out]

\* Variant of the id assignment that numbers from zero.
NewId_FromZero(seq) == Len(seq)

\* The id add_note and add_task give a new item: the number of items of
\* that kind in the collection, plus one.
NewId(seq) == Len(seq) + 1

---------------------------------------------------------------------------
(* Terminal store: operations *)

\* Variant of setup_encryption that unlocks without comparing the entered
\* password with the stored one.
SetupEncryptionOutcome_NoCompare(d, kr, sf, cs, df, set_pw, password, typed, fresh) ==
    IF kr = None
    THEN [ret |-> TRUE, keyring |-> kr, salt_file |-> sf,
          cipher_suite |-> None, data |-> d, data_file |-> df]
    ELSE LET g  == GenerateKeyFromPassword(typed, sf, fresh)
             d1 == [d EXCEPT !.password_enabled = Some(TRUE)]
             s  == SaveData(d1, kr, Some(g.key), df)
         IN  [ret |-> TRUE, keyring |-> kr, salt_file |-> g.salt_file,
              cipher_suite |-> Some(g.key), data |-> s.data,
              data_file |-> s.data_file]

\* Variant of setup_encryption that leaves the flag unset after the answer "n".
SetupEncryptionOutcome_NoFlagOnNo(d, kr, sf, cs, df, set_pw, password, typed, fresh) ==
    LET same == [ret |-> TRUE, keyring |-> kr, salt_file |-> sf,
                 cipher_suite |-> cs, data |-> d, data_file |-> df]
    IN
    IF d.password_enabled = Some(FALSE)
    THEN [same EXCEPT !.cipher_suite = None]
    ELSE IF kr = None
    THEN IF df # None /\ JsonLoads(df[1]).ok
         THEN [same EXCEPT !.data = JsonLoads(df[1]).val]
         ELSE IF set_pw = "y"
              THEN LET g  == GenerateKeyFromPassword(password, sf, fresh)
                       d1 == [d EXCEPT !.password_enabled = Some(TRUE)]
                       s  == SaveData(d1, Some(password), Some(g.key), df)
                   IN  [ret |-> TRUE, keyring |-> Some(password),
                        salt_file |-> g.salt_file, cipher_suite |-> Some(g.key),
                        data |-> s.data, data_file |-> s.data_file]
              ELSE LET s == SaveData(d, kr, None, df)
                   IN  [same EXCEPT !.cipher_suite = None, !.data = s.data,
                                    !.data_file = s.data_file]
    ELSE IF typed = kr[1]
         THEN LET g  == GenerateKeyFromPassword(typed, sf, fresh)
                  d1 == [d EXCEPT !.password_enabled = Some(TRUE)]
                  s  == SaveData(d1, kr, Some(g.key), df)
              IN  [same EXCEPT !.salt_file = g.salt_file,
                               !.cipher_suite = Some(g.key),
                               !.data = s.data, !.data_file = s.data_file]
         ELSE [same EXCEPT !.ret = FALSE]

\* setup_encryption as a function of the state it reads and of what the user
\* enters: set_pw answers the first-run question, password is the pair the
\* prompt loop accepts, typed is the password entered at the unlock prompt.
SetupEncryptionOutcome(d, kr, sf, cs, df, set_pw, password, typed, fresh) ==
    LET same == [ret |-> TRUE, keyring |-> kr, salt_file |-> sf,
                 cipher_suite |-> cs, data |-> d, data_file |-> df]
    IN
    IF d.password_enabled = Some(FALSE)
    THEN [same EXCEPT !.cipher_suite = None]
    ELSE IF kr = None
    THEN IF df # None /\ JsonLoads(df[1]).ok
         THEN [same EXCEPT !.data = JsonLoads(df[1]).val]
         ELSE IF set_pw = "y"
              THEN LET g  == GenerateKeyFromPassword(password, sf, fresh)
                       d1 == [d EXCEPT !.password_enabled = Some(TRUE)]
                       s  == SaveData(d1, Some(password), Some(g.key), df)
                   IN  [ret |-> TRUE, keyring |-> Some(password),
                        salt_file |-> g.salt_file, cipher_suite |-> Some(g.key),
                        data |-> s.data, data_file |-> s.data_file]
              ELSE LET d1 == [d EXCEPT !.password_enabled = Some(FALSE)]
                       s  == SaveData(d1, kr, None, df)
                   IN  [same EXCEPT !.cipher_suite = None, !.data = s.data,
                                    !.data_file = s.data_file]
    ELSE IF typed = kr[1]
         THEN LET g  == GenerateKeyFromPassword(typed, sf, fresh)
                  d1 == [d EXCEPT !.password_enabled = Some(TRUE)]
                  s  == SaveData(d1, kr, Some(g.key), df)
              IN  [same EXCEPT !.salt_file = g.salt_file,
                               !.cipher_suite = Some(g.key),
                               !.data = s.data, !.data_file = s.data_file]
         ELSE [same EXCEPT !.ret = FALSE]

\* setup_encryption asks whether to set a password: no verifier is stored,
\* the flag in memory is not False and no plain document could be read.
FirstRunAsked(d, kr, df) ==
    /\ d.password_enabled # Some(FALSE)
    /\ kr = None
    /\ ~(df # None /\ JsonLoads(df[1]).ok)

\* main(): app.setup_encryption(); a False return ends the process. The
\* record keeps what was entered: the password at the unlock prompt, or the
\* answer to the first-run question.
SetupEncryption ==
    /\ frontend = "terminal"
    /\ pc = "new"
    /\ \E set_pw \in {"y", "n"}, password \in TypedPasswords,
          confirm_password \in TypedPasswords, typed \in TypedPasswords,
          fresh \in FreshSalts(salt_file) :
          /\ Accepted(password, confirm_password)
          /\ LET o == SetupEncryptionOutcome(data, keyring, salt_file, cipher_suite,
                                             data_file, set_pw, password, typed, fresh)
             IN  /\ keyring' = o.keyring
                 /\ salt_file' = o.salt_file
                 /\ cipher_suite' = o.cipher_suite
                 /\ data' = o.data
                 /\ data_file' = o.data_file
                 /\ pc' = IF o.ret THEN "ready" ELSE "exited"
                 /\ last' = Last("setup_encryption",
                                 IF keyring # None THEN <<typed>>
                                 ELSE IF FirstRunAsked(data, keyring, data_file)
                                      THEN <<set_pw>> ELSE <<>>,
                                 Ret(o.ret), "")
    /\ UNCHANGED <<frontend, peer, prev>>
    /\ UNCHANGED deskVars
    /\ UNCHANGED andVars

\* main(): app.load_data() after setup_encryption; load_data is also a
\* public method of a running store. A False return at startup ends the
\* process. Its record keeps where it was called (at startup: "ready") and
\* the operation that completed just before it.
LoadDataOp ==
    /\ frontend = "terminal"
    /\ pc \in {"ready", "running"}
    /\ LET o == LoadData(data, keyring, cipher_suite, data_file)
       IN  /\ data' = o.data
           /\ pc' = IF o.ret THEN "running"
                    ELSE IF pc = "ready" THEN "exited" ELSE pc
           /\ last' = Last("load_data", <<pc, last.op, last.out>>, Ret(o.ret), "")
    /\ prev' = IF pc = "ready" THEN prev ELSE NoPrev
    /\ UNCHANGED <<frontend, peer, keyring, salt_file, data_file, cipher_suite>>
    /\ UNCHANGED deskVars
    /\ UNCHANGED andVars

\* add_note
AddNote ==
    /\ frontend = "terminal"
    /\ pc = "running"
    /\ Len(data.notes) < MaxNotes
    /\ \E title \in NoteTitles :
          LET note == [id |-> NewId(data.notes), title |-> title]
              d1 == [data EXCEPT !.notes = Append(data.notes, note)]
              s  == SaveData(d1, keyring, cipher_suite, data_file)
          IN  /\ data' = s.data
              /\ data_file' = s.data_file
              /\ last' = Last("add_note", <<>>, "None", "")
    /\ prev' = NoPrev
    /\ UNCHANGED <<frontend, peer, pc, keyring, salt_file, cipher_suite>>
    /\ UNCHANGED deskVars
    /\ UNCHANGED andVars

\* add_task
AddTask ==
    /\ frontend = "terminal"
    /\ pc = "running"
    /\ Len(data.tasks) < MaxTasks
    /\ \E title \in TaskTitles :
          LET task == [id |-> NewId(data.tasks), title |-> title,
                       completed |-> FALSE]
              d1 == [data EXCEPT !.tasks = Append(data.tasks, task)]
              s  == SaveData(d1, keyring, cipher_suite, data_file)
          IN  /\ data' = s.data
              /\ data_file' = s.data_file
              /\ last' = Last("add_task", <<>>, "task", "")
    /\ prev' = NoPrev
    /\ UNCHANGED <<frontend, peer, pc, keyring, salt_file, cipher_suite>>
    /\ UNCHANGED deskVars
    /\ UNCHANGED andVars

\* Variant of the search that takes the first item whatever its id.
FirstIndex_AnyId(seq, id) == IF seq # <<>> THEN 1 ELSE 0

\* Index of the first task with the given id, 0 when there is none.
FirstIndex(seq, id) ==
    IF \E i \in 1..Len(seq) : seq[i].id = id
    THEN CHOOSE i \in 1..Len(seq) :
            /\ seq[i].id = id
            /\ \A j \in 1..(i - 1) : seq[j].id # id
    ELSE 0

\* complete_task: marks the first task with that id and saves; False and no
\* save when no task has the id.
CompleteTask ==
    /\ frontend = "terminal"
    /\ pc = "running"
    /\ \E task_id \in 1..(MaxTasks + 1) :
          LET i == FirstIndex(data.tasks, task_id)
          IN  IF i = 0
              THEN /\ UNCHANGED <<data, data_file>>
                   /\ last' = Last("complete_task", <<task_id>>, "False", "")
              ELSE LET d1 == [data EXCEPT !.tasks[i].completed = TRUE]
                       s  == SaveData(d1, keyring, cipher_suite, data_file)
                   IN  /\ data' = s.data
                       /\ data_file' = s.data_file
                       /\ last' = Last("complete_task", <<task_id>>, "True", "")
    /\ prev' = NoPrev
    /\ UNCHANGED <<frontend, peer, pc, keyring, salt_file, cipher_suite>>
    /\ UNCHANGED deskVars
    /\ UNCHANGED andVars

\* The notes that stay after deleting every note with the given id.
RECURSIVE WithoutId(_, _)
WithoutId(seq, id) ==
    IF seq = <<>> THEN <<>>
    ELSE IF Head(seq).id = id THEN WithoutId(Tail(seq), id)
         ELSE <<Head(seq)>> \o WithoutId(Tail(seq), id)

\* delete_note_interactive with a numeric entry: nothing happens on an empty
\* list; otherwise the notes with that id are dropped and the document saved.
DeleteNote ==
    /\ frontend = "terminal"
    /\ pc = "running"
    /\ data.notes # <<>>
    /\ \E note_id \in 1..(MaxNotes + 1) :
          LET d1 == [data EXCEPT !.notes = WithoutId(data.notes, note_id)]
              s  == SaveData(d1, keyring, cipher_suite, data_file)
          IN  /\ data' = s.data
              /\ data_file' = s.data_file
              /\ last' = Last("delete_note", <<>>, "None", "deleted")
    /\ prev' = NoPrev
    /\ UNCHANGED <<frontend, peer, pc, keyring, salt_file, cipher_suite>>
    /\ UNCHANGED deskVars
    /\ UNCHANGED andVars

---------------------------------------------------------------------------
(* Terminal store: password operations *)

\* Variant of change_password that stores the new verifier but keeps
\* encrypting under the old key.
ChangePasswordOutcome_KeepKey(d, kr, sf, cs, df, old_password, new_password, fresh) ==
    IF kr = None \/ old_password # kr[1]
    THEN [out |-> "incorrect password", keyring |-> kr, salt_file |-> sf,
          cipher_suite |-> cs, data |-> d, data_file |-> df]
    ELSE LET s == SaveData(d, Some(new_password), cs, df)
         IN  [out |-> "changed", keyring |-> Some(new_password),
              salt_file |-> sf, cipher_suite |-> cs,
              data |-> s.data, data_file |-> s.data_file]

\* Variant of change_password that does not check the current password.
ChangePasswordOutcome_NoCheck(d, kr, sf, cs, df, old_password, new_password, fresh) ==
    LET g == GenerateKeyFromPassword(new_password, sf, fresh)
        s == SaveData(d, Some(new_password), Some(g.key), df)
    IN  [out |-> "changed", keyring |-> Some(new_password),
         salt_file |-> g.salt_file, cipher_suite |-> Some(g.key),
         data |-> s.data, data_file |-> s.data_file]

\* change_password as a function of the state and of the passwords entered.
ChangePasswordOutcome(d, kr, sf, cs, df, old_password, new_password, fresh) ==
    LET same == [out |-> "", keyring |-> kr, salt_file |-> sf,
                 cipher_suite |-> cs, data |-> d, data_file |-> df]
    IN
    IF kr = None
    THEN [same EXCEPT !.out = "no password set"]
    ELSE IF old_password # kr[1]
    THEN [same EXCEPT !.out = "incorrect password"]
    ELSE LET g == GenerateKeyFromPassword(new_password, sf, fresh)
             s == SaveData(d, Some(new_password), Some(g.key), df)
         IN  [out |-> "changed", keyring |-> Some(new_password),
              salt_file |-> g.salt_file, cipher_suite |-> Some(g.key),
              data |-> s.data, data_file |-> s.data_file]

ChangePassword ==
    /\ frontend = "terminal"
    /\ pc = "running"
    /\ \E old_password \in TypedPasswords, new_password \in TypedPasswords,
          confirm_password \in TypedPasswords, fresh \in FreshSalts(salt_file) :
          /\ Accepted(new_password, confirm_password)
          /\ LET o == ChangePasswordOutcome(data, keyring, salt_file, cipher_suite,
                                            data_file, old_password, new_password, fresh)
             IN  /\ keyring' = o.keyring
                 /\ salt_file' = o.salt_file
                 /\ cipher_suite' = o.cipher_suite
                 /\ data' = o.data
                 /\ data_file' = o.data_file
                 /\ last' = Last("change_password",
                                 IF keyring = None THEN <<>>
                                 ELSE IF old_password # keyring[1]
                                      THEN <<old_password>>
                                      ELSE <<old_password, new_password>>,
                                 "None", o.out)
    /\ prev' = NoPrev
    /\ UNCHANGED <<frontend, peer, pc>>
    /\ UNCHANGED deskVars
    /\ UNCHANGED andVars

\* Variant of disable_password that does not write the plain document.
DisablePasswordOutcome_KeepFile(d, kr, sf, cs, df, password) ==
    IF kr = None \/ password # kr[1]
    THEN [out |-> "incorrect password", keyring |-> kr, salt_file |-> sf,
          cipher_suite |-> cs, data |-> d, data_file |-> df]
    ELSE [out |-> "disabled", keyring |-> None, salt_file |-> None,
          cipher_suite |-> None,
          data |-> [d EXCEPT !.password_enabled = Some(FALSE)],
          data_file |-> df]

\* Variant of disable_password that leaves the salt file in place.
DisablePasswordOutcome_KeepSalt(d, kr, sf, cs, df, password) ==
    IF kr = None \/ password # kr[1]
    THEN [out |-> "incorrect password", keyring |-> kr, salt_file |-> sf,
          cipher_suite |-> cs, data |-> d, data_file |-> df]
    ELSE LET d2 == [d EXCEPT !.password_enabled = Some(FALSE)]
             s2 == SaveDataUnencrypted(d2)
         IN  [out |-> "disabled", keyring |-> None, salt_file |-> sf,
              cipher_suite |-> None, data |-> s2.data, data_file |-> s2.data_file]

\* disable_password: plain save, verifier deleted, salt file unlinked,
\* cipher dropped, flag cleared, plain save again.
DisablePasswordOutcome(d, kr, sf, cs, df, password) ==
    LET same == [out |-> "", keyring |-> kr, salt_file |-> sf,
                 cipher_suite |-> cs, data |-> d, data_file |-> df]
    IN
    IF kr = None
    THEN [same EXCEPT !.out = "already disabled"]
    ELSE IF password # kr[1]
    THEN [same EXCEPT !.out = "incorrect password"]
    ELSE LET s1 == SaveDataUnencrypted(d)
             d2 == [s1.data EXCEPT !.password_enabled = Some(FALSE)]
             s2 == SaveDataUnencrypted(d2)
         IN  [out |-> "disabled", keyring |-> None, salt_file |-> None,
              cipher_suite |-> None, data |-> s2.data, data_file |-> s2.data_file]

DisablePassword ==
    /\ frontend = "terminal"
    /\ pc = "running"
    /\ \E password \in TypedPasswords :
          LET o == DisablePasswordOutcome(data, keyring, salt_file, cipher_suite,
                                          data_file, password)
          IN  /\ keyring' = o.keyring
              /\ salt_file' = o.salt_file
              /\ cipher_suite' = o.cipher_suite
              /\ data' = o.data
              /\ data_file' = o.data_file
              /\ last' = Last("disable_password",
                              IF keyring # None THEN <<password>> ELSE <<>>,
                              "None", o.out)
    /\ prev' = NoPrev
    /\ UNCHANGED <<frontend, peer, pc>>
    /\ UNCHANGED deskVars
    /\ UNCHANGED andVars

\* Variant of enable_password that does not save the document.
EnablePasswordOutcome_NoSave(d, kr, sf, cs, df, password, fresh) ==
    IF kr # None
    THEN [out |-> "already enabled", keyring |-> kr, salt_file |-> sf,
          cipher_suite |-> cs, data |-> d, data_file |-> df]
    ELSE LET g == GenerateKeyFromPassword(password, sf, fresh)
         IN  [out |-> "enabled", keyring |-> Some(password),
              salt_file |-> g.salt_file, cipher_suite |-> Some(g.key),
              data |-> [d EXCEPT !.password_enabled = Some(TRUE)],
              data_file |-> df]

\* Variant of enable_password that does not set the password_enabled flag.
EnablePasswordOutcome_NoFlag(d, kr, sf, cs, df, password, fresh) ==
    IF kr # None
    THEN [out |-> "already enabled", keyring |-> kr, salt_file |-> sf,
          cipher_suite |-> cs, data |-> d, data_file |-> df]
    ELSE LET g == GenerateKeyFromPassword(password, sf, fresh)
             s == SaveData(d, Some(password), Some(g.key), df)
         IN  [out |-> "enabled", keyring |-> Some(password),
              salt_file |-> g.salt_file, cipher_suite |-> Some(g.key),
              data |-> s.data, data_file |-> s.data_file]

\* enable_password: refuses when a verifier is stored; otherwise stores the
\* new verifier, derives the key, sets the flag and saves.
EnablePasswordOutcome(d, kr, sf, cs, df, password, fresh) ==
    IF kr # None
    THEN [out |-> "already enabled", keyring |-> kr, salt_file |-> sf,
          cipher_suite |-> cs, data |-> d, data_file |-> df]
    ELSE LET g  == GenerateKeyFromPassword(password, sf, fresh)
             d1 == [d EXCEPT !.password_enabled = Some(TRUE)]
             s  == SaveData(d1, Some(password), Some(g.key), df)
         IN  [out |-> "enabled", keyring |-> Some(password),
              salt_file |-> g.salt_file, cipher_suite |-> Some(g.key),
              data |-> s.data, data_file |-> s.data_file]

EnablePassword ==
    /\ frontend = "terminal"
    /\ pc = "running"
    /\ \E password \in TypedPasswords, confirm_password \in TypedPasswords,
          fresh \in FreshSalts(salt_file) :
          /\ Accepted(password, confirm_password)
          /\ LET o == EnablePasswordOutcome(data, keyring, salt_file, cipher_suite,
                                            data_file, password, fresh)
             IN  /\ keyring' = o.keyring
                 /\ salt_file' = o.salt_file
                 /\ cipher_suite' = o.cipher_suite
                 /\ data' = o.data
                 /\ data_file' = o.data_file
                 /\ last' = Last("enable_password", <<>>, "None", o.out)
    /\ prev' = NoPrev
    /\ UNCHANGED <<frontend, peer, pc>>
    /\ UNCHANGED deskVars
    /\ UNCHANGED andVars

\* The process ends (menu exit, a quick command returning, sys.exit) and the
\* program is started again: TurboNotes.__init__ on the same files and
\* secret store. prev keeps the notes and tasks of the process that was
\* running, and whether it ended right after a successful disable_password.
Restart ==
    /\ frontend = "terminal"
    /\ pc # "new"
    /\ pc' = "new"
    /\ cipher_suite' = None
    /\ data' = DefaultData
    /\ prev' = IF pc = "running"
               THEN [notes |-> data.notes, tasks |-> data.tasks,
                     disabled |-> (last.op = "disable_password"
                                   /\ last.out = "disabled")]
               ELSE prev
    /\ last' = Last("__init__", <<>>, "None", "")
    /\ UNCHANGED <<frontend, peer, keyring, salt_file, data_file>>
    /\ UNCHANGED deskVars
    /\ UNCHANGED andVars

TerminalNext ==
    \/ SetupEncryption
    \/ LoadDataOp
    \/ AddNote
    \/ AddTask
    \/ CompleteTask
    \/ DeleteNote
    \/ ChangePassword
    \/ DisablePassword
    \/ EnablePassword
    \/ Restart

---------------------------------------------------------------------------
(* Desktop store: CryptoManager *)

\* What a caller can pass to CryptoManager.enable; the empty string is legal.
EnablePasswords == {"secret1", "secret2", ""}

\* uuid4 values, at least as many as a document can hold notes.
Uuids == {"u1", "u2", "u3"}

\* CryptoManager._derive_key: reads the salt file, or creates it.
DeriveKey(password, sf, fresh) ==
    LET salt == IF sf # None THEN sf[1] ELSE fresh
    IN  [key |-> Derive(password, salt), salt_file |-> Some(salt)]

\* CryptoManager.load: a key only when the stored verifier is a non-empty
\* string ("if pw").
CryptoLoad(kr, sf, fresh) ==
    IF kr # None /\ kr[1] # ""
    THEN LET g == DeriveKey(kr[1], sf, fresh)
         IN  [fernet |-> Some(g.key), salt_file |-> g.salt_file]
    ELSE [fernet |-> None, salt_file |-> sf]

\* CryptoManager.encrypt: passthrough without a key.
CryptoEncrypt(f, bytes) ==
    IF f = None THEN bytes ELSE FernetEncrypt(f[1], bytes)

\* CryptoManager.decrypt: passthrough without a key; InvalidToken is raised
\* to the caller otherwise.
CryptoDecrypt(f, bytes) ==
    IF f = None THEN [ok |-> TRUE, val |-> bytes] ELSE FernetDecrypt(f[1], bytes)

\* CryptoManager.is_enabled
IsEnabled(kr) == kr # None

(* Desktop store: NotesStorage *)

\* NotesStorage.load; ok is FALSE when decrypt or json.loads raises, and
\* then nothing has been assigned.
StorageLoad(gd, ld, f, fp) ==
    IF fp = None
    THEN [ok |-> TRUE, gdata |-> gd, loaded |-> TRUE]
    ELSE LET dec == CryptoDecrypt(f, fp[1])
         IN  IF ~dec.ok
             THEN [ok |-> FALSE, gdata |-> gd, loaded |-> ld]
             ELSE LET r == JsonLoads(dec.val)
                  IN  IF r.ok
                      THEN [ok |-> TRUE, gdata |-> r.val, loaded |-> TRUE]
                      ELSE [ok |-> FALSE, gdata |-> gd, loaded |-> ld]

\* "if not self._loaded: self.load()"
EnsureLoaded(gd, ld, f, fp) ==
    IF ld THEN [ok |-> TRUE, gdata |-> gd, loaded |-> ld]
    ELSE StorageLoad(gd, ld, f, fp)

\* Variant of NotesStorage.save that keeps the notes found on a plain file
\* which the document in memory does not hold.
StorageSave_Merge(gd, f) ==
    LET on_file == IF file_path # None /\ file_path[1].kind = "json"
                   THEN file_path[1].body.notes ELSE <<>>
        Missing(n) == \A i \in 1..Len(gd.notes) : gd.notes[i].id # n.id
    IN  Some(CryptoEncrypt(f, JsonDumps([gd EXCEPT !.notes = SelectSeq(on_file, Missing) \o @])))

\* NotesStorage.save: the bytes written to the file.
StorageSave(gd, f) == Some(CryptoEncrypt(f, JsonDumps(gd)))

\* NotesStorage.__init__ at process start: CryptoManager(), crypto.load(),
\* an empty document, not loaded.
NotesStorageInit ==
    /\ frontend = "desktop"
    /\ \E fresh \in FreshSalts(salt_file) :
          LET c == CryptoLoad(keyring, salt_file, fresh)
          IN  /\ fernet' = c.fernet
              /\ salt_file' = c.salt_file
    /\ gdata' = [notes |-> <<>>]
    /\ loaded' = FALSE
    /\ last' = Last("__init__", <<>>, "None", "")
    /\ UNCHANGED <<frontend, peer, keyring, file_path>>
    /\ UNCHANGED termVars
    /\ UNCHANGED andVars

\* CryptoManager.enable(password)
CryptoEnable ==
    /\ frontend = "desktop"
    /\ \E password \in EnablePasswords, fresh \in FreshSalts(salt_file) :
          LET g == DeriveKey(password, salt_file, fresh)
          IN  /\ keyring' = Some(password)
              /\ fernet' = Some(g.key)
              /\ salt_file' = g.salt_file
    /\ last' = Last("enable", <<>>, "None", "")
    /\ UNCHANGED <<frontend, peer, file_path, gdata, loaded>>
    /\ UNCHANGED termVars
    /\ UNCHANGED andVars

\* CryptoManager.disable()
CryptoDisable ==
    /\ frontend = "desktop"
    /\ keyring' = None
    /\ salt_file' = None
    /\ fernet' = None
    /\ last' = Last("disable", <<>>, "None", "")
    /\ UNCHANGED <<frontend, peer, file_path, gdata, loaded>>
    /\ UNCHANGED termVars
    /\ UNCHANGED andVars

\* NotesStorage.list_notes
ListNotes ==
    /\ frontend = "desktop"
    /\ LET l == EnsureLoaded(gdata, loaded, fernet, file_path)
       IN  /\ gdata' = l.gdata
           /\ loaded' = l.loaded
           /\ last' = Last("list_notes", <<>>, IF l.ok THEN "notes" ELSE "raised", "")
    /\ UNCHANGED <<frontend, peer, keyring, salt_file, file_path, fernet>>
    /\ UNCHANGED termVars
    /\ UNCHANGED andVars

\* NotesStorage.create_note: a new uuid4, appended and saved.
CreateNote ==
    /\ frontend = "desktop"
    /\ LET l == EnsureLoaded(gdata, loaded, fernet, file_path)
       IN  IF ~l.ok
           THEN /\ UNCHANGED <<gdata, loaded, file_path>>
                /\ last' = Last("create_note", <<>>, "raised", "")
           ELSE /\ Len(l.gdata.notes) < MaxNotes
                /\ \E id \in Uuids :
                      /\ \A i \in 1..Len(l.gdata.notes) : l.gdata.notes[i].id # id
                      /\ LET note == [id |-> id, title |-> ""]
                             gd == [l.gdata EXCEPT !.notes = Append(@, note)]
                         IN  /\ gdata' = gd
                             /\ loaded' = l.loaded
                             /\ file_path' = StorageSave(gd, fernet)
                /\ last' = Last("create_note", <<>>, "note", "")
    /\ UNCHANGED <<frontend, peer, keyring, salt_file, fernet>>
    /\ UNCHANGED termVars
    /\ UNCHANGED andVars

\* NotesStorage.update_note(note_id, title=...): the first note with the id
\* is updated and the document saved; None and no save when there is none.
UpdateNote ==
    /\ frontend = "desktop"
    /\ \E note_id \in Uuids :
          LET l == EnsureLoaded(gdata, loaded, fernet, file_path)
              i == FirstIndex(l.gdata.notes, note_id)
          IN  IF ~l.ok
              THEN /\ UNCHANGED <<gdata, loaded, file_path>>
                   /\ last' = Last("update_note", <<note_id>>, "raised", "")
              ELSE IF i = 0
              THEN /\ gdata' = l.gdata
                   /\ loaded' = l.loaded
                   /\ UNCHANGED file_path
                   /\ last' = Last("update_note", <<note_id>>, "None", "")
              ELSE LET gd == [l.gdata EXCEPT !.notes[i].title = "A"]
                   IN  /\ gdata' = gd
                       /\ loaded' = l.loaded
                       /\ file_path' = StorageSave(gd, fernet)
                       /\ last' = Last("update_note", <<note_id>>, "note", "")
    /\ UNCHANGED <<frontend, peer, keyring, salt_file, fernet>>
    /\ UNCHANGED termVars
    /\ UNCHANGED andVars

\* NotesStorage.delete_note(note_id): saves only when a note was removed.
DeleteNoteDesktop ==
    /\ frontend = "desktop"
    /\ \E note_id \in Uuids :
          LET l == EnsureLoaded(gdata, loaded, fernet, file_path)
              arr == WithoutId(l.gdata.notes, note_id)
              removed == Len(arr) # Len(l.gdata.notes)
              gd == [l.gdata EXCEPT !.notes = arr]
          IN  IF ~l.ok
              THEN /\ UNCHANGED <<gdata, loaded, file_path>>
                   /\ last' = Last("delete_note", <<note_id>>, "raised", "")
              ELSE /\ gdata' = gd
                   /\ loaded' = l.loaded
                   /\ file_path' = IF removed THEN StorageSave(gd, fernet)
                                   ELSE file_path
                   /\ last' = Last("delete_note", <<note_id>>, Ret(removed), "")
    /\ UNCHANGED <<frontend, peer, keyring, salt_file, fernet>>
    /\ UNCHANGED termVars
    /\ UNCHANGED andVars

DesktopNext ==
    \/ NotesStorageInit
    \/ CryptoEnable
    \/ CryptoDisable
    \/ ListNotes
    \/ CreateNote
    \/ UpdateNote
    \/ DeleteNoteDesktop

---------------------------------------------------------------------------
(* Android store: DataManager *)

\* DataManager is defined twice, in main.py (the class the app uses) and in
\* data_manager.py; the two differ in what load_data returns.
DataManagerModules == {"main", "data_manager"}

\* Caps of the counters stats.total_notes / stats.total_tasks and
\* stats.completed_tasks, which the code only ever increments.
MaxAdded == 2
MaxCompleted == 2

\* The document DataManager.__init__ builds. The categories, the settings
\* and the achievements are read by no operation modelled here. last_used
\* holds the day of the timestamp save_data stamps.
AndroidDefaultData ==
    [notes |-> <<>>, tasks |-> <<>>,
     stats |-> [total_notes |-> 0, total_tasks |-> 0, completed_tasks |-> 0,
                streak_days |-> 0, last_used |-> None]]

\* dict.update: every key of loaded_data replaces or extends d, the others stay.
DictUpdate(d, loaded_data) ==
    [k \in (DOMAIN d) \cup (DOMAIN loaded_data) |->
        IF k \in DOMAIN loaded_data THEN loaded_data[k] ELSE d[k]]

\* DataManager.load_data as a function of what it reads: ok is FALSE when
\* json.load raises, which is caught and printed.
AndroidLoadDataOutcome(d, f) ==
    IF f = None
    THEN [ok |-> TRUE, data |-> d]
    ELSE LET r == JsonLoads(f[1])
         IN  IF r.ok THEN [ok |-> TRUE, data |-> DictUpdate(d, r.val)]
                     ELSE [ok |-> FALSE, data |-> d]

\* What load_data returns: main.py's has no return statement, data_manager.py's
\* returns True, or False after an exception.
AndroidLoadDataReturn(module, ok) ==
    IF module = "main" THEN "None" ELSE Ret(ok)

AndroidLoadDataPrinted(ok) == IF ok THEN "" ELSE "Error loading data"

\* Variant of update_streak that counts every call as a new day.
UpdateStreak_EveryCall(d, day) == [d EXCEPT !.stats.streak_days = @ + 1]

\* DataManager.update_streak on the day `day`: the streak starts at 1 when
\* last_used is absent, grows by one when last_used is the day before,
\* stays when last_used is the same day and restarts at 1 otherwise.
UpdateStreak(d, day) ==
    LET last_used == d.stats.last_used
    IN  IF last_used # None
        THEN IF day = last_used[1] + 1
             THEN [d EXCEPT !.stats.streak_days = @ + 1]
             ELSE IF day # last_used[1]
                  THEN [d EXCEPT !.stats.streak_days = 1]
                  ELSE d
        ELSE [d EXCEPT !.stats.streak_days = 1]

\* Variant of DataManager.save_data that writes the file without the tasks.
AndroidSaveData_DropTasks(d) ==
    LET d1 == [d EXCEPT !.stats.last_used = Some(today)]
    IN  [data |-> d1, afile |-> Some(JsonDumps([d1 EXCEPT !.tasks = <<>>]))]

\* DataManager.save_data: stamps stats.last_used and writes the whole
\* document as JSON.
AndroidSaveData(d) ==
    LET d1 == [d EXCEPT !.stats.last_used = Some(today)]
    IN  [data |-> d1, afile |-> Some(JsonDumps(d1))]

\* DataManager() in a new process: the default document, then load_data,
\* whose return value the constructor drops. prev keeps the notes and tasks
\* the previous instance held.
DataManagerInit ==
    /\ frontend = "android"
    /\ LET o == AndroidLoadDataOutcome(AndroidDefaultData, afile)
       IN  /\ adata' = o.data
           /\ last' = Last("__init__", <<>>, "None", AndroidLoadDataPrinted(o.ok))
    /\ prev' = [notes |-> adata.notes, tasks |-> adata.tasks, disabled |-> FALSE]
    /\ UNCHANGED <<frontend, peer, pc, keyring, salt_file, data_file, cipher_suite, data>>
    /\ UNCHANGED <<dm_class, afile, today, dawn>>
    /\ UNCHANGED deskVars

\* DataManager.load_data called on the instance; its record keeps the
\* operation that completed just before it.
AndroidLoadData ==
    /\ frontend = "android"
    /\ LET o == AndroidLoadDataOutcome(adata, afile)
       IN  /\ adata' = o.data
           /\ last' = Last("load_data", <<last.op>>,
                           AndroidLoadDataReturn(dm_class, o.ok),
                           AndroidLoadDataPrinted(o.ok))
    /\ UNCHANGED <<frontend, peer, pc, keyring, salt_file, data_file, cipher_suite, data, prev>>
    /\ UNCHANGED <<dm_class, afile, today, dawn>>
    /\ UNCHANGED deskVars

\* DataManager.add_note
AndroidAddNote ==
    /\ frontend = "android"
    /\ Len(adata.notes) < MaxNotes
    /\ adata.stats.total_notes < MaxAdded
    /\ \E title \in NoteTitles :
          LET note == [id |-> NewId(adata.notes), title |-> title]
              d1 == [adata EXCEPT !.notes = Append(@, note),
                                  !.stats.total_notes = @ + 1]
              s  == AndroidSaveData(d1)
          IN  /\ adata' = s.data
              /\ afile' = s.afile
    /\ last' = Last("add_note", <<>>, "note", "")
    /\ prev' = NoPrev
    /\ UNCHANGED <<frontend, peer, pc, keyring, salt_file, data_file, cipher_suite, data>>
    /\ UNCHANGED <<dm_class, today, dawn>>
    /\ UNCHANGED deskVars

\* DataManager.add_task
AndroidAddTask ==
    /\ frontend = "android"
    /\ Len(adata.tasks) < MaxTasks
    /\ adata.stats.total_tasks < MaxAdded
    /\ \E title \in TaskTitles :
          LET task == [id |-> NewId(adata.tasks), title |-> title,
                       completed |-> FALSE]
              d1 == [adata EXCEPT !.tasks = Append(@, task),
                                  !.stats.total_tasks = @ + 1]
              s  == AndroidSaveData(d1)
          IN  /\ adata' = s.data
              /\ afile' = s.afile
    /\ last' = Last("add_task", <<>>, "task", "")
    /\ prev' = NoPrev
    /\ UNCHANGED <<frontend, peer, pc, keyring, salt_file, data_file, cipher_suite, data>>
    /\ UNCHANGED <<dm_class, today, dawn>>
    /\ UNCHANGED deskVars

\* DataManager.complete_task: the first task with the id is marked, the
\* counter incremented, the streak updated and the document saved; False
\* and no save when no task has the id.
AndroidCompleteTask ==
    /\ frontend = "android"
    /\ \E task_id \in 1..(MaxTasks + 1) :
          LET i == FirstIndex(adata.tasks, task_id)
          IN  IF i = 0
              THEN /\ UNCHANGED <<adata, afile>>
                   /\ last' = Last("complete_task", <<task_id>>, "False", "")
              ELSE /\ adata.stats.completed_tasks < MaxCompleted
                   /\ LET d1 == [adata EXCEPT !.tasks[i].completed = TRUE,
                                              !.stats.completed_tasks = @ + 1]
                          d2 == UpdateStreak(d1, today)
                          s  == AndroidSaveData(d2)
                      IN  /\ adata' = s.data
                          /\ afile' = s.afile
                   /\ last' = Last("complete_task", <<task_id>>, "True", "")
    /\ prev' = NoPrev
    /\ UNCHANGED <<frontend, peer, pc, keyring, salt_file, data_file, cipher_suite, data>>
    /\ UNCHANGED <<dm_class, today, dawn>>
    /\ UNCHANGED deskVars

\* DataManager.delete_note: always saves and returns True.
AndroidDeleteNote ==
    /\ frontend = "android"
    /\ \E note_id \in 1..(MaxNotes + 1) :
          LET d1 == [adata EXCEPT !.notes = WithoutId(@, note_id)]
              s  == AndroidSaveData(d1)
          IN  /\ adata' = s.data
              /\ afile' = s.afile
    /\ last' = Last("delete_note", <<>>, "True", "")
    /\ prev' = NoPrev
    /\ UNCHANGED <<frontend, peer, pc, keyring, salt_file, data_file, cipher_suite, data>>
    /\ UNCHANGED <<dm_class, today, dawn>>
    /\ UNCHANGED deskVars

\* DataManager.delete_task: always saves and returns True.
AndroidDeleteTask ==
    /\ frontend = "android"
    /\ \E task_id \in 1..(MaxTasks + 1) :
          LET d1 == [adata EXCEPT !.tasks = WithoutId(@, task_id)]
              s  == AndroidSaveData(d1)
          IN  /\ adata' = s.data
              /\ afile' = s.afile
    /\ last' = Last("delete_task", <<>>, "True", "")
    /\ prev' = NoPrev
    /\ UNCHANGED <<frontend, peer, pc, keyring, salt_file, data_file, cipher_suite, data>>
    /\ UNCHANGED <<dm_class, today, dawn>>
    /\ UNCHANGED deskVars

\* TurboNotesApp.periodic_save and on_stop: save_data with no mutation.
AndroidPeriodicSave ==
    /\ frontend = "android"
    /\ LET s == AndroidSaveData(adata)
       IN  /\ adata' = s.data
           /\ afile' = s.afile
    /\ last' = Last("save_data", <<>>, "None", "")
    /\ prev' = NoPrev
    /\ UNCHANGED <<frontend, peer, pc, keyring, salt_file, data_file, cipher_suite, data>>
    /\ UNCHANGED <<dm_class, today, dawn>>
    /\ UNCHANGED deskVars

AndroidNext ==
    \/ DataManagerInit
    \/ AndroidLoadData
    \/ AndroidAddNote
    \/ AndroidAddTask
    \/ AndroidCompleteTask
    \/ AndroidDeleteNote
    \/ AndroidDeleteTask
    \/ AndroidPeriodicSave

---------------------------------------------------------------------------
(* Specification *)

\* A fresh installation of one of the front-ends: no document, no salt, no
\* verifier; the store object has just been constructed.
Init ==
    /\ frontend \in {"terminal", "desktop", "android"}
    /\ pc = IF frontend = "terminal" THEN "new" ELSE "running"
    /\ keyring = None
    /\ salt_file = None
    /\ data_file = None
    /\ cipher_suite = None
    /\ data = DefaultData
    /\ last = Last("__init__", <<>>, "None", "")
    /\ prev = NoPrev
    /\ file_path = None
    /\ fernet = None
    /\ gdata = [notes |-> <<>>]
    /\ loaded = FALSE
    /\ dm_class \in (IF frontend = "android" THEN DataManagerModules ELSE {"main"})
    /\ afile = None
    /\ adata = AndroidDefaultData
    /\ today = 0
    /\ dawn = 0
    /\ peer = NoPeer

Next == TerminalNext \/ DesktopNext \/ AndroidNext

Spec == Init /\ [][Next]_vars

\* load_data called on a TurboNotes that main has not taken through
\* setup_encryption: a caller of the class (the repository's tests) builds
\* the store and loads at once.
LoadDataDirect ==
    /\ frontend = "terminal"
    /\ pc = "new"
    /\ LET o == LoadData(data, keyring, cipher_suite, data_file)
       IN  /\ data' = o.data
           /\ last' = Last("load_data", <<pc, last.op, last.out>>, Ret(o.ret), "")
    /\ UNCHANGED <<frontend, peer, pc, keyring, salt_file, data_file, cipher_suite, prev>>
    /\ UNCHANGED deskVars
    /\ UNCHANGED andVars

\* The stores driven by main and also directly through load_data.
DirectNext == Next \/ LoadDataDirect

DirectSpec == Init /\ [][DirectNext]_vars

---------------------------------------------------------------------------
(* CryptoManager.encrypt and decrypt called on byte strings *)

\* Byte strings a caller can hand to encrypt: a JSON document and a text
\* that is not JSON.
Payloads ==
    {JsonDumps([notes |-> <<>>]), [kind |-> "text", key |-> None, body |-> [text |-> "hello"]]}

\* Byte strings a caller can hand to decrypt: the payloads, and their tokens
\* under every key a password and a salt can give.
DecryptInputs ==
    Payloads \cup {FernetEncrypt(Derive(password, salt), P) :
                      password \in EnablePasswords, salt \in Salts, P \in Payloads}

\* Variant of CryptoManager.decrypt that returns its input in every mode.
CryptoDecryptCallOutcome_Passthrough(f, bytes) ==
    [ret |-> "bytes", out |-> <<bytes>>]

\* What a call of decrypt gives its caller: the bytes returned, or the
\* InvalidToken exception.
CryptoDecryptCallOutcome(f, bytes) ==
    LET r == CryptoDecrypt(f, bytes)
    IN  IF r.ok THEN [ret |-> "bytes", out |-> <<r.val>>]
                ELSE [ret |-> "InvalidToken", out |-> <<>>]

\* crypto.encrypt(data); the record keeps the bytes returned in out.
CryptoEncryptCall ==
    /\ frontend = "desktop"
    /\ \E P \in Payloads :
          last' = [op |-> "encrypt", arg |-> <<P>>, ret |-> "bytes",
                   out |-> <<CryptoEncrypt(fernet, P)>>]
    /\ UNCHANGED <<frontend, peer, keyring, salt_file>>
    /\ UNCHANGED deskVars
    /\ UNCHANGED termVars
    /\ UNCHANGED andVars

\* crypto.decrypt(data)
CryptoDecryptCall ==
    /\ frontend = "desktop"
    /\ \E bytes \in DecryptInputs :
          LET o == CryptoDecryptCallOutcome(fernet, bytes)
          IN  last' = [op |-> "decrypt", arg |-> <<bytes>>, ret |-> o.ret,
                       out |-> o.out]
    /\ UNCHANGED <<frontend, peer, keyring, salt_file>>
    /\ UNCHANGED deskVars
    /\ UNCHANGED termVars
    /\ UNCHANGED andVars

\* A CryptoManager used on its own: built and loaded, enabled, disabled,
\* and asked to encrypt and decrypt.
CryptoNext ==
    \/ NotesStorageInit
    \/ CryptoEnable
    \/ CryptoDisable
    \/ CryptoEncryptCall
    \/ CryptoDecryptCall

CryptoInit == Init /\ frontend = "desktop"

CryptoSpec == CryptoInit /\ [][CryptoNext]_vars

---------------------------------------------------------------------------
(* Key derivation called on its own *)

\* app.generate_key_from_password(password); the record keeps the key
\* returned in out.
GenerateKeyCall ==
    /\ frontend = "terminal"
    /\ \E password \in TypedPasswords, fresh \in FreshSalts(salt_file) :
          LET g == GenerateKeyFromPassword(password, salt_file, fresh)
          IN  /\ salt_file' = g.salt_file
              /\ last' = [op |-> "generate_key_from_password", arg |-> <<password>>,
                          ret |-> "key", out |-> <<g.key>>]
    /\ UNCHANGED <<frontend, peer, keyring>>
    /\ UNCHANGED termVars
    /\ UNCHANGED deskVars
    /\ UNCHANGED andVars

\* crypto._derive_key(password)
DeriveKeyCall ==
    /\ frontend = "desktop"
    /\ \E password \in EnablePasswords, fresh \in FreshSalts(salt_file) :
          LET g == DeriveKey(password, salt_file, fresh)
          IN  /\ salt_file' = g.salt_file
              /\ last' = [op |-> "_derive_key", arg |-> <<password>>,
                          ret |-> "key", out |-> <<g.key>>]
    /\ UNCHANGED <<frontend, peer, keyring>>
    /\ UNCHANGED termVars
    /\ UNCHANGED deskVars
    /\ UNCHANGED andVars

\* The operations that derive a key or delete the salt, and the two
\* derivation functions called on their own.
KdfNext ==
    \/ GenerateKeyCall
    \/ DeriveKeyCall
    \/ SetupEncryption
    \/ LoadDataOp
    \/ ChangePassword
    \/ DisablePassword
    \/ EnablePassword
    \/ Restart
    \/ NotesStorageInit
    \/ CryptoEnable
    \/ CryptoDisable

KdfInit == Init /\ frontend \in {"terminal", "desktop"}

KdfSpec == KdfInit /\ [][KdfNext]_vars

---------------------------------------------------------------------------
(* Saves whose file write fails *)

\* save_data and save_data_unencrypted when open(self.data_file, "w")
\* raises (read-only or full disk): last_accessed is already stamped, the
\* exception is caught and printed, the file stays as it was.
SaveDataFails(d, df) ==
    [data |-> [d EXCEPT !.last_accessed = Some(Now)], data_file |-> df]

\* DataManager.save_data when open raises: last_used is already stamped.
AndroidSaveDataFails(d, f) ==
    [data |-> [d EXCEPT !.stats.last_used = Some(today)], afile |-> f]

\* add_note whose save fails.
AddNoteWriteFails ==
    /\ frontend = "terminal"
    /\ pc = "running"
    /\ Len(data.notes) < MaxNotes
    /\ \E title \in NoteTitles :
          LET note == [id |-> NewId(data.notes), title |-> title]
              d1 == [data EXCEPT !.notes = Append(data.notes, note)]
              s  == SaveDataFails(d1, data_file)
          IN  /\ data' = s.data
              /\ data_file' = s.data_file
              /\ last' = Last("add_note", <<>>, "None", "Failed to save data")
    /\ prev' = NoPrev
    /\ UNCHANGED <<frontend, peer, pc, keyring, salt_file, cipher_suite>>
    /\ UNCHANGED deskVars
    /\ UNCHANGED andVars

\* add_task whose save fails.
AddTaskWriteFails ==
    /\ frontend = "terminal"
    /\ pc = "running"
    /\ Len(data.tasks) < MaxTasks
    /\ \E title \in TaskTitles :
          LET task == [id |-> NewId(data.tasks), title |-> title,
                       completed |-> FALSE]
              d1 == [data EXCEPT !.tasks = Append(data.tasks, task)]
              s  == SaveDataFails(d1, data_file)
          IN  /\ data' = s.data
              /\ data_file' = s.data_file
              /\ last' = Last("add_task", <<>>, "task", "Failed to save data")
    /\ prev' = NoPrev
    /\ UNCHANGED <<frontend, peer, pc, keyring, salt_file, cipher_suite>>
    /\ UNCHANGED deskVars
    /\ UNCHANGED andVars

\* complete_task on an existing task, whose save fails.
CompleteTaskWriteFails ==
    /\ frontend = "terminal"
    /\ pc = "running"
    /\ \E task_id \in 1..(MaxTasks + 1) :
          LET i == FirstIndex(data.tasks, task_id)
          IN  /\ i # 0
              /\ LET d1 == [data EXCEPT !.tasks[i].completed = TRUE]
                     s  == SaveDataFails(d1, data_file)
                 IN  /\ data' = s.data
                     /\ data_file' = s.data_file
                     /\ last' = Last("complete_task", <<task_id>>, "True", "Failed to save data")
    /\ prev' = NoPrev
    /\ UNCHANGED <<frontend, peer, pc, keyring, salt_file, cipher_suite>>
    /\ UNCHANGED deskVars
    /\ UNCHANGED andVars

\* change_password whose save fails: the key and the verifier are already
\* replaced when save_data runs, and the success message is printed after it.
ChangePasswordWriteFails ==
    /\ frontend = "terminal"
    /\ pc = "running"
    /\ keyring # None
    /\ \E new_password \in TypedPasswords, confirm_password \in TypedPasswords,
          fresh \in FreshSalts(salt_file) :
          /\ Accepted(new_password, confirm_password)
          /\ LET o == ChangePasswordOutcome(data, keyring, salt_file, cipher_suite,
                                            data_file, keyring[1], new_password, fresh)
                 s == SaveDataFails(data, data_file)
             IN  /\ keyring' = o.keyring
                 /\ salt_file' = o.salt_file
                 /\ cipher_suite' = o.cipher_suite
                 /\ data' = s.data
                 /\ data_file' = s.data_file
                 /\ last' = Last("change_password", <<keyring[1], new_password>>,
                                 "None", o.out)
    /\ prev' = NoPrev
    /\ UNCHANGED <<frontend, peer, pc>>
    /\ UNCHANGED deskVars
    /\ UNCHANGED andVars

\* enable_password whose save fails: the verifier, the salt, the cipher and
\* the flag are set before save_data runs.
EnablePasswordWriteFails ==
    /\ frontend = "terminal"
    /\ pc = "running"
    /\ keyring = None
    /\ \E password \in TypedPasswords, confirm_password \in TypedPasswords,
          fresh \in FreshSalts(salt_file) :
          /\ Accepted(password, confirm_password)
          /\ LET o == EnablePasswordOutcome(data, keyring, salt_file, cipher_suite,
                                            data_file, password, fresh)
                 s == SaveDataFails([data EXCEPT !.password_enabled = Some(TRUE)],
                                    data_file)
             IN  /\ keyring' = o.keyring
                 /\ salt_file' = o.salt_file
                 /\ cipher_suite' = o.cipher_suite
                 /\ data' = s.data
                 /\ data_file' = s.data_file
                 /\ last' = Last("enable_password", <<>>, "None", o.out)
    /\ prev' = NoPrev
    /\ UNCHANGED <<frontend, peer, pc>>
    /\ UNCHANGED deskVars
    /\ UNCHANGED andVars

\* disable_password with the right password whose two plain saves fail: the
\* verifier and the salt file are removed all the same.
DisablePasswordWriteFails ==
    /\ frontend = "terminal"
    /\ pc = "running"
    /\ keyring # None
    /\ LET o == DisablePasswordOutcome(data, keyring, salt_file, cipher_suite,
                                       data_file, keyring[1])
           s == SaveDataFails([data EXCEPT !.password_enabled = Some(FALSE)],
                              data_file)
       IN  /\ keyring' = o.keyring
           /\ salt_file' = o.salt_file
           /\ cipher_suite' = o.cipher_suite
           /\ data' = s.data
           /\ data_file' = s.data_file
           /\ last' = Last("disable_password", <<keyring[1]>>, "None", o.out)
    /\ prev' = NoPrev
    /\ UNCHANGED <<frontend, peer, pc>>
    /\ UNCHANGED deskVars
    /\ UNCHANGED andVars

\* DataManager.add_note whose save fails.
AndroidAddNoteWriteFails ==
    /\ frontend = "android"
    /\ Len(adata.notes) < MaxNotes
    /\ adata.stats.total_notes < MaxAdded
    /\ \E title \in NoteTitles :
          LET note == [id |-> NewId(adata.notes), title |-> title]
              d1 == [adata EXCEPT !.notes = Append(@, note),
                                  !.stats.total_notes = @ + 1]
              s  == AndroidSaveDataFails(d1, afile)
          IN  /\ adata' = s.data
              /\ afile' = s.afile
    /\ last' = Last("add_note", <<>>, "note", "Error saving data")
    /\ prev' = NoPrev
    /\ UNCHANGED <<frontend, peer, pc, keyring, salt_file, data_file, cipher_suite, data>>
    /\ UNCHANGED <<dm_class, today, dawn>>
    /\ UNCHANGED deskVars

\* The terminal and Android stores on a disk whose writes may fail.
FailNext ==
    \/ TerminalNext
    \/ AndroidNext
    \/ AddNoteWriteFails
    \/ AddTaskWriteFails
    \/ CompleteTaskWriteFails
    \/ ChangePasswordWriteFails
    \/ EnablePasswordWriteFails
    \/ DisablePasswordWriteFails
    \/ AndroidAddNoteWriteFails

FailInit == Init /\ frontend \in {"terminal", "android"}

FailSpec == FailInit /\ [][FailNext]_vars

---------------------------------------------------------------------------
(* The Android app over several days *)

\* The last calendar day of the model.
MaxDay == 2

\* TurboNotesApp.on_start, which runs once the app object and with it the
\* DataManager are built: update_streak; the save timer it schedules is
\* AndroidPeriodicSave.
AndroidOnStart ==
    /\ frontend = "android"
    /\ last.op = "__init__"
    /\ adata' = UpdateStreak(adata, today)
    /\ last' = Last("on_start", <<>>, "None", "")
    /\ prev' = NoPrev
    /\ UNCHANGED <<frontend, peer, pc, keyring, salt_file, data_file, cipher_suite, data>>
    /\ UNCHANGED <<dm_class, afile, today, dawn>>
    /\ UNCHANGED deskVars

\* Midnight: datetime.now().date() moves to the next day.
DayChange ==
    /\ frontend = "android"
    /\ today < MaxDay
    /\ today' = today + 1
    /\ dawn' = adata.stats.streak_days
    /\ UNCHANGED <<frontend, peer, pc, keyring, salt_file, data_file, cipher_suite, data,
                   last, prev>>
    /\ UNCHANGED <<dm_class, afile, adata>>
    /\ UNCHANGED deskVars

StreakNext ==
    \/ DataManagerInit
    \/ AndroidOnStart
    \/ AndroidAddNote
    \/ AndroidAddTask
    \/ AndroidCompleteTask
    \/ AndroidPeriodicSave
    \/ DayChange

StreakInit == Init /\ frontend = "android"

StreakSpec == StreakInit /\ [][StreakNext]_vars

---------------------------------------------------------------------------
(* Two processes on the same document file *)

\* The document file of the front-end.
DocumentFile == IF frontend = "terminal" THEN data_file ELSE file_path

\* The process that wrote the document file last, 0 when none has: the
\* running process when the file is not what it was when that process took
\* over, the last writer known then otherwise.
Writer == IF DocumentFile # peer.file THEN peer.active ELSE peer.writer

\* The operating system runs the other process: the store object of the
\* running process is set aside and the other one's is taken up. The files
\* and the secret store are shared; nothing locks them.
SwitchInstance ==
    /\ frontend \in {"terminal", "desktop"}
    /\ peer' = [active |-> 3 - peer.active, pc |-> pc,
                cipher_suite |-> cipher_suite, data |-> data,
                fernet |-> fernet, gdata |-> gdata, loaded |-> loaded,
                file |-> DocumentFile, writer |-> Writer]
    /\ pc' = peer.pc
    /\ cipher_suite' = peer.cipher_suite
    /\ data' = peer.data
    /\ fernet' = peer.fernet
    /\ gdata' = peer.gdata
    /\ loaded' = peer.loaded
    /\ UNCHANGED <<frontend, keyring, salt_file, data_file, file_path, last, prev>>
    /\ UNCHANGED andVars

TwoNext ==
    \/ SwitchInstance
    \/ SetupEncryption
    \/ LoadDataOp
    \/ AddNote
    \/ ListNotes
    \/ CreateNote
    \/ DeleteNoteDesktop

TwoInit == Init /\ frontend \in {"terminal", "desktop"}

TwoSpec == TwoInit /\ [][TwoNext]_vars

---------------------------------------------------------------------------
(* A process that stops inside a mutating operation *)

\* The document file right after open(path, "w") or open(path, "wb") and
\* before the buffered content reaches it: the file exists and is empty.
EmptyFile == [kind |-> "empty", key |-> None, body |-> <<>>]

\* Where a process can stop inside a save: before the file is opened, or
\* between the open, which truncates, and the end of the write.
StopPoints == {"before_open", "in_write"}

\* The file a save leaves when the process stops at the given point.
FileAtStop(point, before) ==
    IF point = "in_write" THEN Some(EmptyFile) ELSE before

\* add_note stopped inside save_data, and the program started again
\* (TurboNotes.__init__). The record keeps the document the stopped
\* operation had built in memory.
AddNoteStops ==
    /\ frontend = "terminal"
    /\ pc = "running"
    /\ Len(data.notes) < MaxNotes
    /\ \E title \in NoteTitles, point \in StopPoints :
          LET note == [id |-> NewId(data.notes), title |-> title]
              d1 == [data EXCEPT !.notes = Append(data.notes, note),
                                 !.last_accessed = Some(Now)]
          IN  /\ data_file' = FileAtStop(point, data_file)
              /\ last' = Last("add_note", <<d1>>, "stopped", point)
    /\ pc' = "new"
    /\ cipher_suite' = None
    /\ data' = DefaultData
    /\ prev' = [notes |-> data.notes, tasks |-> data.tasks, disabled |-> FALSE]
    /\ UNCHANGED <<frontend, peer, keyring, salt_file>>
    /\ UNCHANGED deskVars
    /\ UNCHANGED andVars

\* DataManager.add_note stopped inside save_data, and the app started again
\* (DataManager.__init__, which loads).
AndroidAddNoteStops ==
    /\ frontend = "android"
    /\ Len(adata.notes) < MaxNotes
    /\ adata.stats.total_notes < MaxAdded
    /\ \E title \in NoteTitles, point \in StopPoints :
          LET note == [id |-> NewId(adata.notes), title |-> title]
              d1 == [adata EXCEPT !.notes = Append(@, note),
                                  !.stats.total_notes = @ + 1,
                                  !.stats.last_used = Some(today)]
              f  == FileAtStop(point, afile)
          IN  /\ afile' = f
              /\ adata' = AndroidLoadDataOutcome(AndroidDefaultData, f).data
              /\ last' = Last("add_note", <<d1>>, "stopped", point)
    /\ prev' = [notes |-> adata.notes, tasks |-> adata.tasks, disabled |-> FALSE]
    /\ UNCHANGED <<frontend, peer, pc, keyring, salt_file, data_file, cipher_suite, data>>
    /\ UNCHANGED <<dm_class, today, dawn>>
    /\ UNCHANGED deskVars

\* NotesStorage.create_note stopped inside save (Path.write_bytes), and the
\* app started again (NotesStorage.__init__).
CreateNoteStops ==
    /\ frontend = "desktop"
    /\ LET l == EnsureLoaded(gdata, loaded, fernet, file_path)
       IN  /\ l.ok
           /\ Len(l.gdata.notes) < MaxNotes
           /\ \E id \in Uuids, point \in StopPoints :
                 /\ \A i \in 1..Len(l.gdata.notes) : l.gdata.notes[i].id # id
                 /\ LET note == [id |-> id, title |-> ""]
                        gd == [l.gdata EXCEPT !.notes = Append(@, note)]
                    IN  /\ file_path' = FileAtStop(point, file_path)
                        /\ last' = Last("create_note", <<gd>>, "stopped", point)
    /\ \E fresh \in FreshSalts(salt_file) :
          LET c == CryptoLoad(keyring, salt_file, fresh)
          IN  /\ fernet' = c.fernet
              /\ salt_file' = c.salt_file
    /\ gdata' = [notes |-> <<>>]
    /\ loaded' = FALSE
    /\ UNCHANGED <<frontend, peer, keyring>>
    /\ UNCHANGED termVars
    /\ UNCHANGED andVars

\* The three stores, with processes that may stop inside add_note and
\* create_note.
CrashNext ==
    \/ Next
    \/ AddNoteStops
    \/ AndroidAddNoteStops
    \/ CreateNoteStops

CrashSpec == Init /\ [][CrashNext]_vars

---------------------------------------------------------------------------
(* Properties *)

Terminal == frontend = "terminal"
Desktop == frontend = "desktop"
Android == frontend = "android"

\* The document a file content holds, whether or not it is encrypted.
StoredDoc(bytes) == IF bytes.kind = "json" THEN bytes.body ELSE bytes.body.body

\* The file content is a token that decrypts under the key derived from the
\* password and the salt.
DecryptsUnder(bytes, password, salt) == FernetDecrypt(Derive(password, salt), bytes).ok

\* A step of setup_encryption that shows the unlock prompt.
UnlockStep ==
    /\ Terminal
    /\ pc = "new"
    /\ keyring # None
    /\ last'.op = "setup_encryption"

\* A startup load_data has just completed.
StartupLoaded == Terminal /\ last.op = "load_data" /\ last.arg[1] = "ready"

\* C1. A document saved in password mode is what a fresh process holds after
\* setup_encryption (correct password) and load_data; the unlock does not
\* change the notes or tasks stored in the file.
C1_UnlockLoadsSavedDocument ==
    [][ /\ (UnlockStep /\ last'.arg = keyring)
           => /\ data_file # None
              /\ data_file' # None
              /\ StoredDoc(data_file'[1]).notes = StoredDoc(data_file[1]).notes
              /\ StoredDoc(data_file'[1]).tasks = StoredDoc(data_file[1]).tasks
        /\ (StartupLoaded /\ keyring # None)'
           => /\ last'.ret = "True"
              /\ data'.notes = prev'.notes
              /\ data'.tasks = prev'.tasks ]_vars

\* C2. With a verifier stored, a different password at the unlock prompt makes
\* setup_encryption return False: no cipher, the default document in memory,
\* and the document file, the salt file and the verifier as they were.
C2_WrongPasswordRefused ==
    [][ (UnlockStep /\ last'.arg # keyring)
        => /\ last'.ret = "False"
           /\ pc' = "exited"
           /\ cipher_suite' = None
           /\ data' = DefaultData
           /\ UNCHANGED <<data_file, salt_file, keyring>> ]_vars

C2_Witness ==
    /\ Terminal
    /\ last.op = "setup_encryption"
    /\ keyring # None
    /\ last.arg # keyring
    /\ data_file # None
    /\ StoredDoc(data_file[1]).notes # <<>>

\* C3. Terminal store: whenever a verifier is stored and the document file
\* exists, the file is ciphertext that decrypts under the key derived from
\* the verifier and the salt file.
C3_FileEncryptedUnderVerifier ==
    (Terminal /\ keyring # None /\ data_file # None)
    => /\ salt_file # None
       /\ DecryptsUnder(data_file[1], keyring[1], salt_file[1])

C3_Witness ==
    /\ Terminal
    /\ keyring # None
    /\ data_file # None
    /\ last.op = "complete_task"
    /\ last.ret = "True"
    /\ data.notes # <<>>

\* C4. Desktop store: the document file, when it exists, is ciphertext under
\* the current key exactly when a verifier is stored, and plain JSON
\* otherwise.
C4_DesktopFileMatchesVerifier ==
    (Desktop /\ file_path # None)
    => /\ IsEnabled(keyring)
          <=> (fernet # None /\ FernetDecrypt(fernet[1], file_path[1]).ok)
       /\ ~IsEnabled(keyring) <=> JsonLoads(file_path[1]).ok

\* C5. After every operation the salt file exists exactly when a verifier is
\* stored; it holds 16 bytes and, while it exists, it is never rewritten.
C5_SaltIffVerifier ==
    [][ /\ (salt_file' # None) <=> (keyring' # None)
        /\ salt_file' # None => Len(salt_file'[1]) = SaltLen
        /\ (salt_file # None /\ salt_file' # None) => salt_file' = salt_file ]_vars

C5_Witness ==
    /\ Terminal
    /\ last.op = "change_password"
    /\ last.out = "changed"
    /\ salt_file # None
    /\ keyring # None

\* The flag agrees with the presence of a verifier.
Agrees(flag, kr) ==
    /\ flag = Some(TRUE) <=> kr # None
    /\ flag = Some(FALSE) <=> kr = None

FlagOps ==
    {"setup_encryption", "load_data", "enable_password", "disable_password",
     "change_password"}

\* C6 as claimed. The flag is True, False or None, and after each of
\* setup_encryption, load_data, enable_password, disable_password and
\* change_password the flag in memory and in the saved document is True
\* exactly when a verifier is stored and False exactly when none is.
C6_FlagAgreesAfterEveryOperation ==
    /\ data.password_enabled \in {None, Some(TRUE), Some(FALSE)}
    /\ (Terminal /\ last.op \in FlagOps)
       => /\ Agrees(data.password_enabled, keyring)
          /\ data_file # None
          /\ Agrees(StoredDoc(data_file[1]).password_enabled, keyring)

\* C6 as amended: the same, except that after a setup_encryption that
\* returned False (a refused unlock) the flag in memory is still None; the
\* saved document's flag agrees there too.
C6_FlagAgreesUnlessUnlockRefused ==
    /\ data.password_enabled \in {None, Some(TRUE), Some(FALSE)}
    /\ (Terminal /\ last.op \in FlagOps)
       => /\ data_file # None
          /\ Agrees(StoredDoc(data_file[1]).password_enabled, keyring)
          /\ IF last.op = "setup_encryption" /\ last.ret = "False"
             THEN data.password_enabled = None
             ELSE Agrees(data.password_enabled, keyring)

C6_Witness ==
    /\ Terminal
    /\ last.op = "enable_password"
    /\ last.out = "enabled"
    /\ data.tasks # <<>>

\* A step of change_password or disable_password in which no verifier is
\* stored or the current password entered differs from it.
RefusedPasswordStep ==
    /\ Terminal
    /\ last'.op \in {"change_password", "disable_password"}
    /\ keyring = None \/ last'.arg[1] # keyring[1]

\* C7. change_password and disable_password with a wrong current password,
\* or with no verifier stored, change nothing: verifier, salt file, cipher,
\* flag, document in memory and document file stay as they were.
C7_RefusedPasswordOpChangesNothing ==
    [][ RefusedPasswordStep
        => UNCHANGED <<keyring, salt_file, cipher_suite, data, data_file>> ]_vars

C7_Witness ==
    /\ Terminal
    /\ last.op = "change_password"
    /\ last.out = "incorrect password"
    /\ data.notes # <<>>

\* A step of change_password that reports success; the old password is the
\* verifier before the step, the new one is the second prompt entry.
ChangedStep ==
    /\ Terminal
    /\ last'.op = "change_password"
    /\ last'.out = "changed"

\* What every successful change_password leaves: the salt file as it was, the
\* new password as verifier, the file decrypting under (new password, salt)
\* to the document in memory.
ChangedUnderNewKey ==
    /\ salt_file # None
    /\ salt_file' = salt_file
    /\ keyring' = Some(last'.arg[2])
    /\ data_file' # None
    /\ DecryptsUnder(data_file'[1], last'.arg[2], salt_file'[1])
    /\ StoredDoc(data_file'[1]) = data'

\* C8 as claimed. After a successful change_password the salt is the same,
\* the verifier is the new password, the file decrypts under (new, salt) to
\* the document in memory and no longer decrypts under (old, salt).
C8_ChangedFileNotUnderOldKey ==
    [][ ChangedStep
        => /\ ChangedUnderNewKey
           /\ ~DecryptsUnder(data_file'[1], keyring[1], salt_file'[1]) ]_vars

\* C8 as amended: the file no longer decrypts under (old, salt) when the new
\* password differs from the old one; change_password accepts a new password
\* equal to the old one, and then the key is the same.
C8_ChangedFileUnderNewKey ==
    [][ ChangedStep
        => /\ ChangedUnderNewKey
           /\ last'.arg[2] # keyring[1]
              => ~DecryptsUnder(data_file'[1], keyring[1], salt_file'[1]) ]_vars

C8_Witness ==
    /\ Terminal
    /\ last.op = "change_password"
    /\ last.out = "changed"
    /\ last.arg[1] # last.arg[2]
    /\ data.notes # <<>>

\* C9. After a successful disable_password there is no verifier, no salt
\* file, no cipher, the flag is False and the file is the plain JSON of the
\* document; a process started next, with no password, holds after
\* setup_encryption and load_data the notes and tasks the store held.
C9_DisableThenPlainLoad ==
    /\ (Terminal /\ last.op = "disable_password" /\ last.out = "disabled")
       => /\ keyring = None
          /\ salt_file = None
          /\ cipher_suite = None
          /\ data.password_enabled = Some(FALSE)
          /\ data_file # None
          /\ JsonLoads(data_file[1]).ok
          /\ JsonLoads(data_file[1]).val = data
    /\ (StartupLoaded /\ keyring = None /\ prev.disabled)
       => /\ last.ret = "True"
          /\ data.notes = prev.notes
          /\ data.tasks = prev.tasks

C9_Witness ==
    /\ StartupLoaded
    /\ keyring = None
    /\ prev.disabled
    /\ data.notes # <<>>
    /\ data.tasks # <<>>

\* C10. load_data called right after a successful enable_password, on the
\* same store, returns True and leaves the notes and tasks as they were.
C10_EnableThenLoad ==
    [][ (Terminal /\ last.op = "enable_password" /\ last.out = "enabled"
                  /\ last'.op = "load_data")
        => /\ last'.ret = "True"
           /\ data'.notes = data.notes
           /\ data'.tasks = data.tasks
           /\ data' = StoredDoc(data_file[1]) ]_vars

C10_Witness ==
    /\ Terminal
    /\ last.op = "load_data"
    /\ last.arg = <<"running", "enable_password", "enabled">>
    /\ last.ret = "True"
    /\ data.notes # <<>>
    /\ \E i \in 1..Len(data.tasks) : data.tasks[i].completed

\* C11. On a fresh install (no document file, no verifier) load_data returns
\* True, in the terminal store and in the Android DataManager, the notes and
\* tasks in memory are empty and the load creates no file.
C11_FreshInstallLoadReturnsTrue ==
    [][ /\ (Terminal /\ data_file = None /\ keyring = None /\ last'.op = "load_data")
           => /\ last'.ret = "True"
              /\ data'.notes = <<>>
              /\ data'.tasks = <<>>
              /\ data_file' = None
        /\ (Android /\ afile = None /\ last'.op = "load_data")
           => /\ last'.ret = "True"
              /\ adata'.notes = <<>>
              /\ adata'.tasks = <<>>
              /\ afile' = None ]_vars

\* A load that opens a fresh store instance: the terminal load_data at
\* startup or on a newly built store, the Android constructor and the
\* load_data called right after it.
FreshInstanceLoad ==
    \/ Terminal /\ last.op = "load_data" /\ last.arg[1] \in {"new", "ready"}
    \/ Android /\ last.op = "__init__"
    \/ Android /\ last.op = "load_data" /\ last.arg[1] = "__init__"

\* C12. Plain mode round trip: with no verifier stored, a fresh store
\* instance on the same file loads without reporting a failure and holds
\* the notes and tasks the previous instance held, in the same order with
\* the same ids and titles (terminal and Android).
C12_PlainRoundTrip ==
    /\ (Terminal /\ FreshInstanceLoad /\ keyring = None)
       => /\ last.ret = "True"
          /\ data.notes = prev.notes
          /\ data.tasks = prev.tasks
    /\ (Android /\ FreshInstanceLoad)
       => /\ last.ret # "False"
          /\ last.out = ""
          /\ adata.notes = prev.notes
          /\ adata.tasks = prev.tasks

C12_Witness ==
    /\ Android
    /\ last.op = "load_data"
    /\ last.arg[1] = "__init__"
    /\ Len(adata.notes) = 2
    /\ \E i \in 1..Len(adata.tasks) : adata.tasks[i].completed

\* The document file and the secret store disagree: ciphertext with no
\* verifier stored, or plain JSON with a verifier stored.
Mismatched ==
    /\ data_file # None
    /\ \/ keyring = None /\ data_file[1].kind = "fernet"
       \/ keyring # None /\ data_file[1].kind = "json"

\* C13. Terminal store: when the document file is ciphertext with no verifier
\* stored, or plain JSON with a verifier stored, setup_encryption and
\* load_data at startup end in a failure returned to the caller: the process
\* never goes on to run with a document, and the file is left as it was.
C13_MismatchSurfacesLoadFailure ==
    [][ (Terminal /\ Mismatched /\ pc \in {"new", "ready"}
                  /\ last'.op \in {"setup_encryption", "load_data"})
        => /\ data_file' = data_file
           /\ pc' # "running"
           /\ pc = "ready" => pc' = "exited" ]_vars

\* C14. CryptoManager: decrypt applied to what encrypt has just returned
\* gives the payload back, with a key set and in passthrough mode, and in
\* passthrough mode encrypt returns its input.
C14_EncryptDecryptRoundTrip ==
    [][ /\ (Desktop /\ last.op = "encrypt" /\ last'.op = "decrypt"
                    /\ last'.arg = last.out)
           => /\ last'.ret = "bytes"
              /\ last'.out = last.arg
        /\ (Desktop /\ fernet = None /\ last'.op = "encrypt")
           => last'.out = last'.arg ]_vars

C14_Witness ==
    /\ Desktop
    /\ fernet # None
    /\ last.op = "decrypt"
    /\ last.arg[1].kind = "fernet"
    /\ last.ret = "bytes"
    /\ last.out[1].kind = "text"

\* C15. CryptoManager.decrypt raises, and returns no bytes, for a token made
\* under another key, for a token given in passthrough mode and for plain
\* bytes given while a key is set.
C15_DecryptRejectsForeignInput ==
    [][ (Desktop /\ last'.op = "decrypt"
           /\ \/ fernet # None /\ last'.arg[1].kind = "fernet"
                               /\ last'.arg[1].key # fernet
              \/ fernet = None /\ last'.arg[1].kind = "fernet"
              \/ fernet # None /\ last'.arg[1].kind # "fernet")
        => /\ last'.ret = "InvalidToken"
           /\ last'.out = <<>> ]_vars

KdfOps == {"generate_key_from_password", "_derive_key"}

\* C16. Key derivation is deterministic and salt creation idempotent: a call
\* returns the key derived from its password and the salt in the salt file,
\* only a call that finds no salt file writes one, a call right after a call
\* with the same password returns the same key and leaves the salt file as
\* it is, and no operation other than a disable changes an existing salt.
C16_DerivationDeterministic ==
    [][ /\ last'.op \in KdfOps
           => /\ salt_file' # None
              /\ last'.out = <<Derive(last'.arg[1], salt_file'[1])>>
              /\ salt_file # None => salt_file' = salt_file
        /\ (last.op \in KdfOps /\ last'.op = last.op /\ last'.arg = last.arg)
           => /\ last'.out = last.out
              /\ salt_file' = salt_file
        /\ (salt_file # None /\ salt_file' # None) => salt_file' = salt_file ]_vars

C16_Witness ==
    /\ Terminal
    /\ last.op = "generate_key_from_password"
    /\ keyring # None
    /\ last.arg # keyring
    /\ salt_file # None
    /\ cipher_suite # None
    /\ cipher_suite # last.out

\* The terminal operations that ask for a password at a prompt.
PromptOps == {"setup_encryption", "change_password", "enable_password"}

\* C17. A cipher holds a key after a step only if the step was an operation
\* that was given a password by its caller (a terminal prompt, or
\* CryptoManager.enable), or if the same store instance held that key
\* already; building a store never leaves it with a key, since no password
\* is supplied to it and the key is never derived from the secret store.
C17_KeyOnlyFromCallerPassword ==
    [][ /\ (Terminal /\ cipher_suite' # None)
           => \/ last'.op \in PromptOps
              \/ cipher_suite' = cipher_suite /\ last'.op # "__init__"
        /\ (Desktop /\ fernet' # None)
           => \/ last'.op = "enable"
              \/ fernet' = fernet /\ last'.op # "__init__" ]_vars

\* What a reader of the document file gets who decrypts exactly when a
\* verifier is stored, under the key of the verifier and the salt file.
Decode(bytes, kr, sf) ==
    IF kr = None
    THEN JsonLoads(bytes)
    ELSE IF sf = None
         THEN [ok |-> FALSE, val |-> bytes]
         ELSE LET dec == FernetDecrypt(Derive(kr[1], sf[1]), bytes)
              IN  IF dec.ok THEN JsonLoads(dec.val) ELSE [ok |-> FALSE, val |-> bytes]

\* A mutating operation has just completed.
TerminalMutated ==
    /\ Terminal
    /\ pc = "running"
    /\ \/ last.op \in {"add_note", "add_task"}
       \/ last.op = "complete_task" /\ last.ret = "True"

AndroidMutated ==
    /\ Android
    /\ \/ last.op \in {"add_note", "add_task", "delete_note", "delete_task"}
       \/ last.op = "complete_task" /\ last.ret = "True"

DesktopMutated ==
    /\ Desktop
    /\ \/ last.op \in {"create_note", "update_note"} /\ last.ret = "note"
       \/ last.op = "delete_note" /\ last.ret = "True"

\* C18. After every completed mutating operation the document file decodes,
\* decrypting when a verifier is stored, to a document whose notes and
\* tasks are those in memory (terminal, Android and desktop).
C18_FileMatchesMemoryAfterMutation ==
    /\ TerminalMutated
       => /\ data_file # None
          /\ Decode(data_file[1], keyring, salt_file).ok
          /\ Decode(data_file[1], keyring, salt_file).val.notes = data.notes
          /\ Decode(data_file[1], keyring, salt_file).val.tasks = data.tasks
    /\ AndroidMutated
       => /\ afile # None
          /\ JsonLoads(afile[1]).ok
          /\ JsonLoads(afile[1]).val.notes = adata.notes
          /\ JsonLoads(afile[1]).val.tasks = adata.tasks
    /\ DesktopMutated
       => /\ file_path # None
          /\ Decode(file_path[1], keyring, salt_file).ok
          /\ Decode(file_path[1], keyring, salt_file).val.notes = gdata.notes

\* The file content decodes, for a reader who decrypts when a verifier is
\* stored, to a document with the notes and tasks of doc.
DecodesTo(f, kr, sf, doc) ==
    /\ f # None
    /\ Decode(f[1], kr, sf).ok
    /\ Decode(f[1], kr, sf).val.notes = doc.notes
    /\ "tasks" \in DOMAIN doc => Decode(f[1], kr, sf).val.tasks = doc.tasks

\* C19. When a process stops inside a mutating operation, at any point of
\* its save, the document file is afterwards either what it was before the
\* operation or a file that decodes to the document the operation had
\* built; it is never empty, truncated or unreadable.
C19_StopLeavesOldOrNewDocument ==
    [][ /\ (Terminal /\ last'.ret = "stopped")
           => \/ data_file' = data_file
              \/ DecodesTo(data_file', keyring', salt_file', last'.arg[1])
        /\ (Android /\ last'.ret = "stopped")
           => \/ afile' = afile
              \/ DecodesTo(afile', None, None, last'.arg[1])
        /\ (Desktop /\ last'.ret = "stopped")
           => \/ file_path' = file_path
              \/ DecodesTo(file_path', keyring', salt_file', last'.arg[1]) ]_vars

\* A step of one of the saving operations that returns to its caller with
\* the document in memory or the verifier changed.
SavingStep ==
    /\ \/ last'.op \in {"add_note", "add_task", "change_password", "enable_password"}
       \/ last'.op = "complete_task" /\ last'.ret = "True"
    /\ last'.ret \notin {"raised", "stopped"}

\* C20. A save whose file write fails is not followed by a normal return:
\* whenever add_note, add_task, complete_task, change_password or
\* enable_password returns normally with the document or the verifier
\* changed, the document file decodes under the stored verifier to the
\* notes and tasks in memory.
C20_NoNormalReturnAheadOfDisk ==
    [][ /\ (Terminal /\ pc = "running" /\ SavingStep
                     /\ (data' # data \/ keyring' # keyring))
           => DecodesTo(data_file', keyring', salt_file', data')
        /\ (Android /\ SavingStep /\ adata' # adata)
           => DecodesTo(afile', None, None, adata') ]_vars

\* The ids of the collection are 1, 2, ..., n in order.
Numbered(seq) == \A i \in 1..Len(seq) : seq[i].id = i

\* The collection after an add: the old items, then one new item whose id
\* is the old count plus one.
AddedTo(before, after) ==
    /\ Len(after) = Len(before) + 1
    /\ SubSeq(after, 1, Len(before)) = before
    /\ after[Len(after)].id = Len(before) + 1
    /\ Numbered(before) => Numbered(after)

\* C21. add_note and add_task, in the terminal store and in the Android
\* DataManager, append one item whose id is the number of items of that kind
\* held before the call, plus one; adds into a collection numbered 1..n leave
\* it numbered 1..n+1, and an add of one kind leaves the other kind alone.
C21_NewIdIsCountPlusOne ==
    [][ /\ (Terminal /\ last'.op = "add_note")
           => AddedTo(data.notes, data'.notes) /\ data'.tasks = data.tasks
        /\ (Terminal /\ last'.op = "add_task")
           => AddedTo(data.tasks, data'.tasks) /\ data'.notes = data.notes
        /\ (Android /\ last'.op = "add_note")
           => AddedTo(adata.notes, adata'.notes) /\ adata'.tasks = adata.tasks
        /\ (Android /\ last'.op = "add_task")
           => AddedTo(adata.tasks, adata'.tasks) /\ adata'.notes = adata.notes ]_vars

C21_Witness ==
    /\ Android
    /\ last.op = "add_note"
    /\ Len(adata.notes) = 2
    /\ adata.notes[1].id = 1
    /\ adata.notes[2].id = 2
    /\ Len(adata.tasks) = 1
    /\ adata.tasks[1].id = 1

\* Some item of the collection has the id.
HasId(seq, id) == \E i \in 1..Len(seq) : seq[i].id = id

DesktopDoc == EnsureLoaded(gdata, loaded, fernet, file_path)

CompletedCount(tasks) == Cardinality({i \in 1..Len(tasks) : tasks[i].completed})

\* C23. Android DataManager: while no task has been deleted (every task
\* ever added is still in the document), stats.completed_tasks is the number
\* of tasks whose completed flag is set, and so never exceeds
\* stats.total_tasks.
C23_CompletedCounterMatchesFlags ==
    (Android /\ adata.stats.total_tasks = Len(adata.tasks))
    => /\ adata.stats.completed_tasks = CompletedCount(adata.tasks)
       /\ adata.stats.completed_tasks <= adata.stats.total_tasks

\* C24. DataManager.update_streak, as on_start calls it: the streak becomes
\* 1 when last_used is absent, grows by exactly one when last_used is the
\* day before today, stays when last_used is today and becomes 1 for any
\* other day; no other field of the document and nothing of the file changes.
C24_UpdateStreakCases ==
    [][ (Android /\ last.op = "__init__" /\ last'.op = "on_start")
        => LET last_used == adata.stats.last_used
               before == adata.stats.streak_days
               after == adata'.stats.streak_days
           IN  /\ last_used = None => after = 1
               /\ (last_used # None /\ last_used[1] = today - 1) => after = before + 1
               /\ (last_used # None /\ last_used[1] = today) => after = before
               /\ (last_used # None /\ last_used[1] \notin {today - 1, today})
                  => after = 1
               /\ [adata' EXCEPT !.stats.streak_days = before] = adata
               /\ afile' = afile ]_vars

C24_Witness ==
    /\ Android
    /\ last.op = "on_start"
    /\ adata.stats.last_used = Some(today - 1)
    /\ adata.stats.streak_days = 2

\* C27. Android app: within one calendar day stats.streak_days grows by at
\* most one over the value it had when the day began, and after a
\* complete_task that returned True it is at least 1.
C27_StreakGrowsOncePerDay ==
    Android
    => /\ adata.stats.streak_days <= dawn + 1
       /\ (last.op = "complete_task" /\ last.ret = "True")
          => adata.stats.streak_days >= 1

\* The terminal operations that save the document of a running store.
TerminalSaves ==
    \/ last'.op \in {"add_note", "add_task", "delete_note"}
    \/ last'.op = "complete_task" /\ last'.ret = "True"

\* C25. Terminal store, first run (no verifier, no document file):
\* setup_encryption answered "n" returns True with no verifier stored, the
\* salt file as it was (none is created), cipher_suite unset and
\* password_enabled False; every later save made in that mode writes the
\* document in memory as plain JSON.
C25_FirstRunNoPassword ==
    [][ /\ (Terminal /\ pc = "new" /\ keyring = None /\ data_file = None
                     /\ last'.op = "setup_encryption" /\ last'.arg = <<"n">>)
           => /\ last'.ret = "True"
              /\ pc' = "ready"
              /\ keyring' = None
              /\ salt_file' = salt_file
              /\ cipher_suite' = None
              /\ data'.password_enabled = Some(FALSE)
        /\ (Terminal /\ pc = "running" /\ keyring = None /\ cipher_suite = None
                     /\ data.password_enabled = Some(FALSE) /\ TerminalSaves)
           => /\ data_file' = Some(JsonDumps(data'))
              /\ keyring' = None
              /\ cipher_suite' = None ]_vars

C25_Witness ==
    /\ Terminal
    /\ last.op = "setup_encryption"
    /\ last.arg = <<"n">>
    /\ last.ret = "True"
    /\ keyring = None
    /\ salt_file = None
    /\ cipher_suite = None
    /\ data.password_enabled = Some(FALSE)

\* No two items of the collection have the same id.
UniqueIds(seq) ==
    \A i, j \in 1..Len(seq) : i # j => seq[i].id # seq[j].id

\* C26. No two notes share an id and no two tasks share an id, in the
\* terminal store and in the Android DataManager, so that a delete or a
\* complete_task by id touches at most one item.
C26_IdsUnique ==
    /\ Terminal => UniqueIds(data.notes) /\ UniqueIds(data.tasks)
    /\ Android => UniqueIds(adata.notes) /\ UniqueIds(adata.tasks)

\* The Android document file exists and is not valid JSON.
AndroidFileCorrupt == afile # None /\ ~JsonLoads(afile[1]).ok

\* C28. Android DataManager: while the document file is not valid JSON,
\* which the instance's load has found, load_data returns False and no
\* operation of the instance writes the file.
C28_FailedLoadNeverOverwritten ==
    [][ (Android /\ AndroidFileCorrupt)
        => /\ last'.op = "load_data" => last'.ret = "False"
           /\ afile' = afile ]_vars

\* The token is what encrypt returns right after enable with the stored
\* verifier: a Fernet token under the key of the verifier and the salt file.
UnderVerifier(token) ==
    /\ keyring # None
    /\ salt_file # None
    /\ token.kind = "fernet"
    /\ token.key = Some(Derive(keyring[1], salt_file[1]))

\* C29. Desktop CryptoManager, for every password given to enable, the
\* empty string included: a new manager that has called load() holds a key
\* exactly when is_enabled() is true, and decrypt gives back the payload of
\* a token made under the stored verifier.
C29_LoadedModeMatchesIsEnabled ==
    [][ /\ (Desktop /\ last'.op = "__init__")
           => (fernet' # None <=> IsEnabled(keyring'))
        /\ (Desktop /\ last'.op = "decrypt" /\ UnderVerifier(last'.arg[1]))
           => /\ last'.ret = "bytes"
              /\ last'.out = <<last'.arg[1].body>> ]_vars

\* The byte strings a store whose cipher is cs can write for the document:
\* the JSON text, or its Fernet token under the key of the cipher.
Encodings(doc, cs) ==
    {Some(JsonDumps(doc))}
    \cup (IF cs # None THEN {Some(FernetEncrypt(cs[1], JsonDumps(doc)))} ELSE {})

\* The store object of the process that wrote the document file last.
WriterStore ==
    IF Writer = peer.active
    THEN [data |-> data, cipher_suite |-> cipher_suite,
          gdata |-> gdata, fernet |-> fernet]
    ELSE [data |-> peer.data, cipher_suite |-> peer.cipher_suite,
          gdata |-> peer.gdata, fernet |-> peer.fernet]

\* The store object of the other process.
OtherStore ==
    IF Writer = peer.active
    THEN [data |-> peer.data, gdata |-> peer.gdata]
    ELSE [data |-> data, gdata |-> gdata]

\* The notes a reader with the writer's cipher finds in the document file.
NotesOnFile ==
    IF frontend = "terminal" THEN WriterStore.data.notes ELSE WriterStore.gdata.notes

\* C30. Two processes on one document file: once a process has written the
\* file, the file is the whole in-memory document of the process that wrote
\* last, plain or under that process's key; nothing is merged, so a desktop
\* note that only the other process holds is not on the file.
C30_LastWriterWins ==
    (frontend \in {"terminal", "desktop"} /\ Writer # 0)
    => /\ Terminal => data_file \in Encodings(WriterStore.data, WriterStore.cipher_suite)
       /\ Desktop => file_path \in Encodings(WriterStore.gdata, WriterStore.fernet)
       /\ Desktop => \A i \in 1..Len(OtherStore.gdata.notes) :
                        ~HasId(WriterStore.gdata.notes, OtherStore.gdata.notes[i].id)
                        => ~HasId(NotesOnFile, OtherStore.gdata.notes[i].id)

\* Both terminal processes have added notes in plain mode; the one that
\* wrote last had loaded before the other added its two notes, and the file
\* holds its single note only.
C30_Witness ==
    /\ Terminal
    /\ keyring = None
    /\ Writer = peer.active
    /\ peer.writer = 3 - peer.active
    /\ last.op = "add_note"
    /\ Len(data.notes) = 1
    /\ Len(peer.data.notes) = 2
    /\ data_file = Some(JsonDumps(data))

=============================================================================
